---- MODULE Spec2Model ----
(***************************************************************************)
(* A model of src/main.py: download_video (the single-item downloader) and *)
(* process_json_file (the batch processor), run one or more times against  *)
(* the same configuration file and base directory.                         *)
(*                                                                         *)
(* The external collaborators (the file system, json.load, yt_dlp, the     *)
(* clock) are the environment: every call into them either returns or      *)
(* raises an exception of class Exception.  Asynchronous BaseExceptions    *)
(* (KeyboardInterrupt, SystemExit) are not faults of a call and are not    *)
(* modelled.  Time passes only inside the two network calls, extract_info  *)
(* and ydl.download; a URL has one title, one size and one duration.       *)
(***************************************************************************)
EXTENDS Integers, Sequences, FiniteSets, TLC

\* ---------------------------------------------------------------- bounds
MaxSubjects == 2      \* subjects in a configuration mapping
MaxItems == 3         \* URLs in a configuration mapping, over all its subjects
MaxRuns == 2          \* calls of process_json_file against the same directory

\* ------------------------------------------------------- the environment
URLs == {"urlA", "urlB"}

\* Subject names. A name with a separator denotes a nested path whose parent
\* directory the program never creates (mkdir is called without parents=True).
PlainSubjects == {"math", "physics"}
NestedSubjects == {"unit1/math"}
Subjects == PlainSubjects \cup NestedSubjects

\* What extract_info reports as info['title'] for a URL.
Title(u) == IF u = "urlA" THEN "titleA" ELSE "titleB"

\* Byte length of the media yt_dlp writes for a URL (whole MiB, so that
\* size / 1024 / 1024 is exact).
VideoSize(u) == IF u = "urlA" THEN 200 * 1024 * 1024 ELSE 1024 * 1024

\* Seconds the blocking calls take.
ExtractTime(u) == IF u = "urlA" THEN 1 ELSE 2
DownloadTime(u) == IF u = "urlA" THEN 9 ELSE 3


SeqsUpTo(S, n) == UNION {[1..k -> S] : k \in 0..n}

\* The JSON value of a subject: a list of URLs, or a value that is not
\* iterable (a number).
UrlLists ==
    {[iterable |-> TRUE, items |-> l] : l \in SeqsUpTo(URLs, MaxItems)}
        \cup {[iterable |-> FALSE, items |-> <<>>]}

\* Number of URLs in the lists of the mapping m.
RECURSIVE CountUrls(_)
CountUrls(m) == IF m = <<>> THEN 0 ELSE Len(Head(m).urls.items) + CountUrls(Tail(m))

\* A JSON object: key order is file order, keys are unique.
Mappings ==
    {m \in SeqsUpTo([subject : Subjects, urls : UrlLists], MaxSubjects) :
        /\ \A i, j \in 1..Len(m) : i # j => m[i].subject # m[j].subject
        /\ CountUrls(m) <= MaxItems}

\* The configuration file: absent, not JSON, JSON but not an object, or a mapping.
Configs ==
    {[kind |-> k, data |-> <<>>] : k \in {"missing", "malformed", "notdict"}}
        \cup {[kind |-> "mapping", data |-> m] : m \in Mappings}

\* What is at base_dir when the program starts.
BaseKinds == {"dir", "absent", "file", "noparent", "readonly"}

VARIABLES
    config,     \* the configuration file (never written by the program)
    base,       \* what is at base_dir
    dirs,       \* subject directories that exist under base_dir
    files,      \* existing media files: <<subject, title, ext>> -> byte length
    run,        \* number of the current call of process_json_file
    pc,         \* position in process_json_file
    si,         \* index of the current subject in data.items()
    ui,         \* index of the current url in urls
    metrics,    \* the metrics dictionary
    errlog,     \* error-severity log lines of the current call, in order
    infos,      \* number of info-severity log lines of the current call
    dv,         \* the frame of download_video: position and locals
    elapsed,    \* time.time() - start_time of the current download_video call
    result,     \* the tuple download_video returned last
    call,       \* history of the current download_video call
    ret,        \* history: sums over the tuples download_video returned
    okNow,      \* history: items this call counted successful
    okPrev,     \* history: items the previous call counted successful
    filesPrev   \* history: the files present when the previous call returned

vars == <<config, base, dirs, files, run, pc, si, ui, metrics, errlog, infos,
          dv, elapsed, result, call, ret, okNow, okPrev, filesPrev>>

\* ------------------------------------------------------- main.py 105-111
InitialMetrics ==
    [total_videos |-> 0, successful_downloads |-> 0, failed_downloads |-> 0,
     total_size_mb |-> 0, total_time_s |-> 0]

IdleFrame == [pc |-> "idle", success |-> FALSE, file_size |-> 0, duration |-> 0]

NoCall == [preExists |-> FALSE, preSize |-> 0, transferred |-> FALSE,
           fault |-> "none", escaped |-> FALSE]

NoResult == <<FALSE, 0, 0>>

NoRet == [calls |-> 0, ok |-> 0, size_bytes |-> 0, time_s |-> 0]

Init ==
    /\ config \in Configs
    /\ base \in BaseKinds
    /\ dirs = {}
    /\ files = [p \in {} |-> 0]
    /\ run = 1
    /\ pc = "start"
    /\ si = 0
    /\ ui = 0
    /\ metrics = InitialMetrics
    /\ errlog = <<>>
    /\ infos = 0
    /\ dv = IdleFrame
    /\ elapsed = 0
    /\ result = NoResult
    /\ call = NoCall
    /\ ret = NoRet
    /\ okNow = {}
    /\ okPrev = {}
    /\ filesPrev = {}

\* ------------------------------------------------------------ file system
\* pathlib.Path.mkdir(exist_ok=True), without parents=True, by what is at the
\* path: "ok" or the exception class it raises.
Mkdir(kind) ==
    CASE kind = "dir" -> "ok"
      [] kind = "absent" -> "ok"
      [] kind = "readonly" -> "ok"
      [] kind = "file" -> "FileExistsError"
      [] kind = "noparent" -> "FileNotFoundError"
      [] kind = "denied" -> "PermissionError"

\* What is at base_dir/<subject>.
SubjectKind(s) ==
    IF s \in dirs THEN "dir"
    ELSE IF s \in NestedSubjects THEN "noparent"
    ELSE IF base = "readonly" THEN "denied"
    ELSE "absent"

\* Faulty variant of line 123: the subject directory is not created
EnsureDir_Noop(ds, s) == ds

\* main.py 123: the directories after subject_path.mkdir(exist_ok=True) returned
EnsureDir(ds, s) == ds \cup {s}

\* main.py 71: Path(output_path) / f"{video_title}.mp4"
output_file(output_path, u) == <<output_path, Title(u), "mp4">>

\* The file yt_dlp writes when its own template yields another name than
\* <title>.mp4 (a sanitised title, or a single-format container not merged).
other_file(output_path, u) == <<output_path, Title(u), "webm">>

WriteFile(fs, p, n) == [q \in DOMAIN fs \cup {p} |-> IF q = p THEN n ELSE fs[q]]

\* main.py 134: file_size / 1024 / 1024
ToMB(file_size) == (file_size \div 1024) \div 1024

\* ----------------------------------------------------- process_json_file
Data == config.data
Subject == Data[si].subject
Urls == Data[si].urls.items
Url == Urls[ui]
Item == <<si, ui>>

\* main.py 142-147: the except clauses, first match wins.
ErrorLine(exc) ==
    IF exc = "FileNotFoundError" THEN "JSON file not found"
    ELSE IF exc = "JSONDecodeError" THEN "Invalid JSON format"
    ELSE "Error processing JSON"

\* main.py 127
CountItem(m) == [m EXCEPT !.total_videos = @ + 1]

\* Faulty variants of lines 131-136: the else branch dropped, the else branch
\* counting twice, the duration added under `if success`.
Record_FailureNotCounted(m, r) ==
    LET timed == [m EXCEPT !.total_time_s = @ + r[2]]
    IN  IF r[1]
        THEN [timed EXCEPT !.successful_downloads = @ + 1,
                           !.total_size_mb = @ + ToMB(r[3])]
        ELSE timed

Record_FailureCountedTwice(m, r) ==
    LET timed == [m EXCEPT !.total_time_s = @ + r[2]]
    IN  IF r[1]
        THEN [timed EXCEPT !.successful_downloads = @ + 1,
                           !.total_size_mb = @ + ToMB(r[3])]
        ELSE [timed EXCEPT !.failed_downloads = @ + 2]

Record_TimeOnlyOnSuccess(m, r) ==
    IF r[1]
    THEN [m EXCEPT !.total_time_s = @ + r[2],
                   !.successful_downloads = @ + 1,
                   !.total_size_mb = @ + ToMB(r[3])]
    ELSE [m EXCEPT !.failed_downloads = @ + 1]

\* main.py 131-136, r the tuple download_video returned
Record(m, r) ==
    LET timed == [m EXCEPT !.total_time_s = @ + r[2]]
    IN  IF r[1]
        THEN [timed EXCEPT !.successful_downloads = @ + 1,
                           !.total_size_mb = @ + ToMB(r[3])]
        ELSE [timed EXCEPT !.failed_downloads = @ + 1]

\* An exception reaches the except clauses of process_json_file: one error
\* line, then `return metrics` (main.py 142-149).
PjfExcept(exc) ==
    /\ errlog' = Append(errlog, ErrorLine(exc))
    /\ pc' = "done"

\* main.py 105-115. base_path.mkdir is outside the try: what it raises
\* propagates to the caller.
PjfStart ==
    /\ pc = "start"
    /\ IF Mkdir(base) = "ok"
       THEN /\ base' = IF base = "absent" THEN "dir" ELSE base
            /\ infos' = infos + 1
            /\ pc' = "load"
       ELSE /\ pc' = "raised"
            /\ UNCHANGED <<base, infos>>
    /\ UNCHANGED <<config, dirs, files, run, si, ui, metrics, errlog, dv,
                   elapsed, result, call, ret, okNow, okPrev, filesPrev>>

\* main.py 118-121: open, json.load, data.items()
PjfLoad ==
    /\ pc = "load"
    /\ CASE config.kind = "missing" ->
              PjfExcept("FileNotFoundError") /\ UNCHANGED si
         [] config.kind = "malformed" ->
              PjfExcept("JSONDecodeError") /\ UNCHANGED si
         [] config.kind = "notdict" ->
              PjfExcept("AttributeError") /\ UNCHANGED si
         [] config.kind = "mapping" ->
              /\ pc' = "subjects"
              /\ si' = 0
              /\ UNCHANGED errlog
    /\ UNCHANGED <<config, base, dirs, files, run, ui, metrics, infos, dv,
                   elapsed, result, call, ret, okNow, okPrev, filesPrev>>

\* main.py 121-124, and 138-140 when the mapping is exhausted
PjfNextSubject ==
    /\ pc = "subjects"
    /\ IF si = Len(Data)
       THEN /\ infos' = infos + 1
            /\ pc' = "done"
            /\ UNCHANGED <<si, ui, dirs, errlog>>
       ELSE LET s == Data[si + 1].subject
            IN  IF Mkdir(SubjectKind(s)) = "ok"
                THEN /\ dirs' = EnsureDir(dirs, s)
                     /\ infos' = infos + 1
                     /\ si' = si + 1
                     /\ ui' = 0
                     /\ pc' = "urls"
                     /\ UNCHANGED errlog
                ELSE /\ PjfExcept(Mkdir(SubjectKind(s)))
                     /\ UNCHANGED <<si, ui, dirs, infos>>
    /\ UNCHANGED <<config, base, files, run, metrics, dv, elapsed, result,
                   call, ret, okNow, okPrev, filesPrev>>

CallFrame == [pc |-> "extract", success |-> FALSE, file_size |-> 0, duration |-> 0]

\* main.py 126-130, and 60-65 of the callee
PjfNextUrl ==
    /\ pc = "urls"
    /\ IF ~Data[si].urls.iterable
       THEN /\ PjfExcept("TypeError")
            /\ UNCHANGED <<ui, metrics, infos, dv, elapsed, call>>
       ELSE IF ui = Len(Urls)
       THEN /\ pc' = "subjects"
            /\ UNCHANGED <<ui, metrics, infos, dv, elapsed, call, errlog>>
       ELSE /\ ui' = ui + 1
            /\ metrics' = CountItem(metrics)
            /\ infos' = infos + 1
            /\ pc' = "download_video"
            /\ dv' = CallFrame
            /\ elapsed' = 0
            /\ LET f == output_file(Subject, Urls[ui + 1])
               IN  call' = [NoCall EXCEPT
                              !.preExists = f \in DOMAIN files,
                              !.preSize = IF f \in DOMAIN files THEN files[f] ELSE 0]
            /\ UNCHANGED errlog
    /\ UNCHANGED <<config, base, dirs, files, run, si, result, ret, okNow,
                   okPrev, filesPrev>>

\* main.py 130-136
PjfRecord ==
    /\ pc = "record"
    /\ metrics' = Record(metrics, result)
    /\ okNow' = IF result[1] THEN okNow \cup {Item} ELSE okNow
    /\ pc' = "urls"
    \* the callee's frame and the tuple are dead from here on
    /\ elapsed' = 0
    /\ result' = NoResult
    /\ call' = NoCall
    /\ UNCHANGED <<config, base, dirs, files, run, si, ui, errlog, infos, dv,
                   ret, okPrev, filesPrev>>

\* main.py 161-166 again: the program is started once more with the same
\* JSON_FILE and BASE_DIR (the log file is truncated at start, main.py 21-22).
Rerun ==
    /\ pc = "done"
    /\ run < MaxRuns
    /\ run' = run + 1
    /\ pc' = "start"
    /\ si' = 0
    /\ ui' = 0
    /\ metrics' = InitialMetrics
    /\ errlog' = <<>>
    /\ infos' = 0
    /\ ret' = NoRet
    /\ okPrev' = okNow
    /\ okNow' = {}
    /\ filesPrev' = DOMAIN files
    /\ UNCHANGED <<config, base, dirs, files, dv, elapsed, result, call>>

\* --------------------------------------------------------- download_video
\* The exception classes the calls of the model raise; all derive from Exception.
ExceptionClasses ==
    {"DownloadError", "PermissionError", "FileNotFoundError", "FileExistsError",
     "JSONDecodeError", "AttributeError", "TypeError"}

\* Faulty variant of line 87: except yt_dlp.utils.DownloadError
Caught_OnlyDownloadError(exc) == exc = "DownloadError"

\* main.py 87: except Exception
Caught(exc) == exc \in ExceptionClasses

\* main.py 88: duration = time.time() - start_time, in the handler
ExceptFrame(frame, el) == [frame EXCEPT !.duration = el]

\* Faulty variant of line 77: the elapsed time returned for a skipped file
SkipTuple_Elapsed(file_size) == <<TRUE, elapsed, file_size>>

\* main.py 77: return True, 0, file_size
SkipTuple(file_size) == <<TRUE, 0, file_size>>

\* main.py 91: return success, duration, file_size
ReturnTuple(frame) == <<frame.success, frame.duration, frame.file_size>>

\* main.py 81: output_file.stat().st_size if output_file.exists() else 0
MeasuredSize(fs, f) == IF f \in DOMAIN fs THEN fs[f] ELSE 0

\* download_video returns the tuple t to line 130.
DvReturn(t) ==
    /\ result' = t
    /\ pc' = "record"
    /\ dv' = IdleFrame
    /\ ret' = [calls |-> ret.calls + 1,
               ok |-> ret.ok + (IF t[1] THEN 1 ELSE 0),
               size_bytes |-> ret.size_bytes + (IF t[1] THEN t[3] ELSE 0),
               time_s |-> ret.time_s + t[2]]

\* main.py 87-91: exc is raised inside the try at elapsed time el; c is the
\* history of the call so far. What the clause does not catch leaves
\* download_video and reaches the except clauses of process_json_file.
DvExcept(exc, el, c) ==
    IF Caught(exc)
    THEN /\ errlog' = Append(errlog, "Failed to download")
         /\ call' = [c EXCEPT !.fault = exc]
         /\ DvReturn(ReturnTuple(ExceptFrame(dv, el)))
    ELSE /\ PjfExcept(exc)
         /\ call' = [c EXCEPT !.fault = exc, !.escaped = TRUE]
         /\ dv' = IdleFrame
         /\ UNCHANGED <<result, ret>>

\* main.py 68-71: extract_info(url, download=False) and the expected path
DvExtract ==
    /\ pc = "download_video"
    /\ dv.pc = "extract"
    /\ elapsed' = elapsed + ExtractTime(Url)
    /\ \E exc \in {"none", "DownloadError"} :
         IF exc = "none"
         THEN /\ dv' = [dv EXCEPT !.pc = "exists"]
              /\ UNCHANGED <<pc, errlog, result, call, ret>>
         ELSE DvExcept(exc, elapsed', call)
    /\ UNCHANGED <<config, base, dirs, files, run, si, ui, metrics, infos,
                   okNow, okPrev, filesPrev>>

\* main.py 73-77: the existence check and the skip of an existing file
DvExists ==
    /\ pc = "download_video"
    /\ dv.pc = "exists"
    /\ \E exc \in {"none", "PermissionError"} :
         IF exc # "none"
         THEN DvExcept(exc, elapsed, call) /\ UNCHANGED infos
         ELSE IF output_file(Subject, Url) \in DOMAIN files
         THEN /\ infos' = infos + 1
              /\ DvReturn(SkipTuple(files[output_file(Subject, Url)]))
              /\ UNCHANGED <<errlog, call>>
         ELSE /\ dv' = [dv EXCEPT !.pc = "download"]
              /\ UNCHANGED <<pc, errlog, infos, result, call, ret>>
    /\ UNCHANGED <<config, base, dirs, files, run, si, ui, metrics, elapsed,
                   okNow, okPrev, filesPrev>>

\* main.py 79-80: ydl.download([url]) and the duration
DvDownload ==
    /\ pc = "download_video"
    /\ dv.pc = "download"
    /\ elapsed' = elapsed + DownloadTime(Url)
    /\ LET c == [call EXCEPT !.transferred = TRUE]
       IN  \E out \in {"expected", "other", "DownloadError"} :
             IF out = "DownloadError"
             THEN DvExcept(out, elapsed', c) /\ UNCHANGED files
             ELSE /\ files' = WriteFile(files,
                                 IF out = "expected" THEN output_file(Subject, Url)
                                 ELSE other_file(Subject, Url),
                                 VideoSize(Url))
                  /\ dv' = [dv EXCEPT !.pc = "measure", !.duration = elapsed']
                  /\ call' = c
                  /\ UNCHANGED <<pc, errlog, result, ret>>
    /\ UNCHANGED <<config, base, dirs, run, si, ui, metrics, infos,
                   okNow, okPrev, filesPrev>>

\* main.py 81-85 and 91: the size of the result, the log line, the return
DvMeasure ==
    /\ pc = "download_video"
    /\ dv.pc = "measure"
    /\ \E exc \in {"none", "PermissionError"} :
         IF exc # "none"
         THEN DvExcept(exc, elapsed, call) /\ UNCHANGED infos
         ELSE /\ infos' = infos + 1
              /\ DvReturn(ReturnTuple(
                    [dv EXCEPT !.file_size = MeasuredSize(files, output_file(Subject, Url)),
                               !.success = TRUE]))
              /\ UNCHANGED <<errlog, call>>
    /\ UNCHANGED <<config, base, dirs, files, run, si, ui, metrics, elapsed,
                   okNow, okPrev, filesPrev>>

download_video == DvExtract \/ DvExists \/ DvDownload \/ DvMeasure

process_json_file == PjfStart \/ PjfLoad \/ PjfNextSubject \/ PjfNextUrl \/ PjfRecord

\* One call of process_json_file, as main() makes it.
Next == download_video \/ process_json_file

Spec == Init /\ [][Next]_vars

\* The program started again and again on the same configuration and directory.
NextRerun == download_video \/ process_json_file \/ Rerun

SpecRerun == Init /\ [][NextRerun]_vars

\* ----------------------------------------------------------------- claims
\* The call returned through one of the except clauses of lines 142-147.
StructuralFault == \E i \in 1..Len(errlog) : errlog[i] # "Failed to download"

\* The configuration is a JSON object of lists of URLs.
WellFormed ==
    /\ config.kind = "mapping"
    /\ \A k \in 1..Len(Data) : Data[k].urls.iterable

\* Number of URLs in the first k subjects of the mapping.
UrlsBefore(k) == CountUrls(SubSeq(Data, 1, k))

TotalUrls == CountUrls(Data)

\* An item has been recorded, or the call has returned.
Recorded == pc \in {"urls", "subjects", "done"}

\* C1: total_videos = successful_downloads + failed_downloads whenever an item
\* has been recorded and in the metrics returned, a return through a
\* structural fault included.
C1_CountsBalance ==
    Recorded =>
        metrics.total_videos = metrics.successful_downloads + metrics.failed_downloads

C1_Witness ==
    /\ pc = "done"
    /\ StructuralFault
    /\ metrics.successful_downloads >= 1
    /\ metrics.failed_downloads >= 1

\* C2: no exception leaves download_video; a fault raised inside it is logged
\* as an error and the call returns (False, the time elapsed, 0).
C2_FaultBecomesFailure ==
    /\ ~call.escaped
    /\ (pc = "record" /\ call.fault # "none") =>
          /\ result = <<FALSE, elapsed, 0>>
          /\ Len(errlog) >= 1
          /\ errlog[Len(errlog)] = "Failed to download"

C2_Witness ==
    /\ pc = "record"
    /\ call.fault = "PermissionError"
    /\ call.transferred
    /\ elapsed > 0

\* C3 as stated: whenever the expected file exists when download_video is
\* called, the call returns (True, 0, its size) without a transfer and leaves
\* the file as it was.
C3_Original ==
    (pc = "record" /\ call.preExists) =>
        /\ result = <<TRUE, 0, call.preSize>>
        /\ ~call.transferred
        /\ MeasuredSize(files, output_file(Subject, Url)) = call.preSize

\* C3 amended: the same, for a call in which neither extract_info nor the
\* existence check nor the size read raises.
C3_SkipExisting ==
    (pc = "record" /\ call.preExists /\ call.fault = "none") =>
        /\ result = <<TRUE, 0, call.preSize>>
        /\ ~call.transferred
        /\ MeasuredSize(files, output_file(Subject, Url)) = call.preSize

C3_Witness ==
    /\ pc = "record"
    /\ call.preExists
    /\ call.fault = "none"
    /\ elapsed > 0

\* C4, the per-item part: a failed download_video is counted as one failure,
\* leaves successful_downloads and total_size_mb alone, and the loop goes on.
C4_FailureStep ==
    (pc = "record" /\ ~result[1]) =>
        /\ metrics.total_videos = metrics.successful_downloads + metrics.failed_downloads + 1
        /\ metrics'.total_videos = metrics.total_videos
        /\ metrics'.failed_downloads = metrics.failed_downloads + 1
        /\ metrics'.successful_downloads = metrics.successful_downloads
        /\ metrics'.total_size_mb = metrics.total_size_mb
        /\ pc' = "urls"

\* C4 as stated: per-item failures are counted and skipped over, and for a
\* well-formed mapping total_videos at return is the number of URLs.
C4_Original ==
    /\ [][C4_FailureStep]_vars
    /\ [](pc = "done" /\ WellFormed => metrics.total_videos = TotalUrls)

\* C4 amended: per-item failures are counted and skipped over, and for a
\* well-formed mapping whose subject directories were all created (no
\* structural fault) total_videos at return is the number of URLs.
C4_FailureIsolated ==
    /\ [][C4_FailureStep]_vars
    /\ [](pc = "done" /\ WellFormed /\ ~StructuralFault =>
            /\ metrics.total_videos = TotalUrls
            /\ ret.calls = TotalUrls)

C4_Witness ==
    /\ pc = "done"
    /\ ~StructuralFault
    /\ Len(Data) = 2
    /\ Len(Data[1].urls.items) = 2
    /\ metrics.total_videos = 3
    /\ metrics.failed_downloads = 2
    /\ metrics.successful_downloads = 1
    /\ okNow = {<<2, 1>>}

\* C5: process_json_file never propagates a fault to its caller.
C5_NeverRaises == pc # "raised"

\* C6: with the configuration file missing or malformed the call ends only by
\* returning the zero metrics after exactly one error line, download_video is
\* never invoked and no subject directory is created.
C6_ConfigFaultReturnsZero ==
    config.kind \in {"missing", "malformed"} =>
        /\ pc # "raised"
        /\ pc # "download_video"
        /\ ret.calls = 0
        /\ dirs = {}
        /\ pc = "done" => (metrics = InitialMetrics /\ Len(errlog) = 1)

\* C7: in a second run no transfer is made for an item the first run counted
\* successful, and the second run ends with the files the first run left.
C7_Idempotent ==
    /\ (run >= 2 /\ pc \in {"download_video", "record"} /\ call.transferred) =>
          Item \notin okPrev
    /\ (run >= 2 /\ pc = "done") => DOMAIN files = filesPrev

\* C8: at a return without structural fault the metrics are the sums over the
\* tuples download_video returned: successes counted, their bytes as MB, and
\* the durations of all calls.
C8_MetricsAreSums ==
    (pc = "done" /\ ~StructuralFault) =>
        /\ metrics.total_videos = ret.calls
        /\ metrics.successful_downloads = ret.ok
        /\ metrics.failed_downloads = ret.calls - ret.ok
        /\ metrics.total_size_mb * 1024 * 1024 = ret.size_bytes
        /\ metrics.total_time_s = ret.time_s

\* The example of the specification: {"math": [urlA, urlB]}, urlA downloaded
\* (200 MB in 10 s), urlB failing in extract_info after 2 s.
C8_Witness ==
    /\ pc = "done"
    /\ Data = <<[subject |-> "math",
                 urls |-> [iterable |-> TRUE, items |-> <<"urlA", "urlB">>]]>>
    /\ metrics = [total_videos |-> 2, successful_downloads |-> 1,
                  failed_downloads |-> 1, total_size_mb |-> 200,
                  total_time_s |-> 10 + 2]

\* C9: download_video runs for one URL at a time, in mapping and list order,
\* after every earlier URL has returned and been recorded and after the
\* directory of its subject exists.
C9_Sequential ==
    pc \in {"download_video", "record"} =>
        /\ Subject \in dirs
        /\ \A k \in 1..si : Data[k].subject \in dirs
        /\ UrlsBefore(si - 1) + ui = metrics.total_videos
        /\ ret.calls = metrics.total_videos - (IF pc = "record" THEN 0 ELSE 1)
        /\ metrics.successful_downloads + metrics.failed_downloads
              = metrics.total_videos - 1
        /\ (pc = "download_video") <=> (dv.pc # "idle")

C9_Witness ==
    /\ pc = "download_video"
    /\ si = 2
    /\ ui = 2
    /\ metrics.total_videos = 3

\* C10: "JSON file not found" is logged only when the configuration file is
\* absent.
C10_NotFoundMeansMissing ==
    (\E i \in 1..Len(errlog) : errlog[i] = "JSON file not found") =>
        config.kind = "missing"

====
